---------------------------- MODULE Spec2Model ----------------------------
(***************************************************************************)
(* A model of the exam applications of this repository.                    *)
(*                                                                         *)
(*   exam_app.py  the runner: index builds a session from the questions    *)
(*                table, exam records answers and navigates, finish grades *)
(*   app.py       the PDF quiz: upload parses a PDF text and stores a Quiz *)
(*                in QUIZ_STORE, quiz renders it, submit grades it         *)
(*                                                                         *)
(* The two programs are separate processes that share no state.  A         *)
(* behaviour of Spec is a run of one of them: prog, fixed by Init, says    *)
(* which.  Every request handler is one action; the response it returns    *)
(* is kept in resp.                                                        *)
(***************************************************************************)
EXTENDS Integers, Sequences, FiniteSets, TLC

VARIABLES
    prog,                \* "exam_app" or "app": the program this run is of
    now,                 \* int(time.time()), the wall clock in seconds
    db,                  \* exam_app: the questions table, id -> row
    has_question_data,   \* exam_app: 'question_data' in session
    question_data,       \* exam_app: session['question_data'], position -> entry
    answers,             \* exam_app: session['answers'], position -> letter
    num_q,               \* exam_app: session['num_q']
    time_limit_seconds,  \* exam_app: session['time_limit_seconds']
    start_time,          \* exam_app: session['start_time']
    QUIZ_STORE,          \* app: quiz_id -> Quiz
    created,             \* app: quiz_id -> clock value when upload stored it
    call,                \* a parser called on its own: its argument and return
    locals,              \* upload_questions: the locals of parse_excel_dataframe
    sqlite_sequence,     \* upload_questions: the largest id AUTOINCREMENT gave
    resp                 \* the response of the last request

vars == << prog, now, db, has_question_data, question_data, answers, num_q,
           time_limit_seconds, start_time, QUIZ_STORE, created, call, locals,
           sqlite_sequence, resp >>

sessionVars == << has_question_data, question_data, answers, num_q,
                  time_limit_seconds, start_time >>

examVars == << db, has_question_data, question_data, answers, num_q,
               time_limit_seconds, start_time >>

appVars == << QUIZ_STORE, created >>

----------------------------------------------------------------------------
(* Bounds of the model.                                                    *)

\* The clock starts here (any positive value: time.time() is never 0).
BootTime == 100
\* One clock step, in seconds.
TickSec == 60
\* The clock stops after this many steps.
MaxTicks == 1
\* Counts requested in the forms range over -1..MaxNum (and a non-number).
MaxNum == 3
\* Minutes requested in the forms range over -1..MaxMinutes (and a non-number).
MaxMinutes == 1
\* Positions posted to exam range over 0..MaxIdx.
MaxIdx == 2
\* Positions fetched from exam, and goto targets, range over 0..MaxGoto.
MaxGoto == 3
\* The finer clock of SpecClock: ClockSteps steps of ClockStep seconds.
ClockStep == 20
ClockSteps == 4
\* The texts given to parse_pdf_text on its own have up to MaxLines lines.
MaxLines == 6
\* The texts put together from whole blocks have up to MaxBlocks blocks.
MaxBlocks == 2
\* The sheets given to parse_excel_dataframe have up to MaxRows rows.
MaxRows == 6
\* AUTOINCREMENT gives the ids 1..MaxBankIds.
MaxBankIds == 4

----------------------------------------------------------------------------
(* Values shared by both programs.                                         *)

\* Python's None, where a string is expected.
NoneVal == "<None>"
\* Form fields arrive as text.  IntTexts are the texts int() accepts in the
\* model, "x" is a text it refuses (ValueError).
IntRange == -1 .. 9
IntTexts == { ToString(n) : n \in IntRange }
IntOf == [s \in IntTexts |-> CHOOSE n \in IntRange : ToString(n) = s]
IsIntText(s) == s \in IntTexts
int(s) == IntOf[s]

Max(a, b) == IF a >= b THEN a ELSE b
Min(a, b) == IF a <= b THEN a ELSE b

\* Python's round(x, 2) of x = num / den (den > 0), in hundredths.  For
\* den < 16 no quotient used here lies halfway between two hundredths.
Round2(num, den) == (2 * 100 * num + den) \div (2 * den)

\* str.lower() on the labels that occur.
Lower(s) ==
    CASE s = "A" -> "a" [] s = "B" -> "b" [] s = "C" -> "c" [] s = "D" -> "d"
      [] s = "X" -> "x"
      [] OTHER -> s

\* x or '' / x or None: a None or empty string counts as false.
Falsy(s) == s = NoneVal \/ s = ""

NoReport == [results |-> << >>, score |-> 0]

\* A response: the handler, the status code, what is returned (a page, a
\* redirect target, an error), the position or count it carries, the flashed
\* message, the quiz id, the report.
Response(op, code, kind, idx, report) ==
    [op |-> op, code |-> code, kind |-> kind, idx |-> idx,
     flash |-> "", quiz_id |-> "", report |-> report]

Flashed(r, message) == [r EXCEPT !.flash = message]
ForQuiz(r, quiz_id) == [r EXCEPT !.quiz_id = quiz_id]

NumInputs == { ToString(n) : n \in -1 .. MaxNum } \cup { "x" }
MinuteInputs == { ToString(n) : n \in -1 .. MaxMinutes } \cup { "x" }

----------------------------------------------------------------------------
(* exam_app.py                                                             *)

display_labels == << "a", "b", "c", "d" >>

\* Rows of the questions table as upload_questions.py writes them: four
\* option texts and a correct label that is 'a'..'d' or NULL.
Row(text, a, b, c, d, corr) ==
    [text |-> text, option_a |-> a, option_b |-> b, option_c |-> c,
     option_d |-> d, correct_label |-> corr]

QuestionPool ==
    << Row("q1", "t1", "t2", "t2", "t2", "a"),
       Row("q2", "t3", "t3", "t3", "t3", NoneVal) >>

\* The tables the runner may be started with: the first n rows, ids 1..n.
Tables == { [id \in 1 .. n |-> QuestionPool[id]] : n \in 0 .. Len(QuestionPool) }

get_all_question_ids == DOMAIN db

load_question_by_id(qid) == db[qid]

\* A sample that may draw a member twice.
SamplesWithReplacement(population, k) == [1 .. k -> population]

\* random.sample(population, k): the sequences of k distinct members.
Samples(population, k) ==
    { s \in [1 .. k -> population] : \A i, j \in 1 .. k : s[i] = s[j] => i = j }

\* random.shuffle: every order of the four options.
Shuffles == Permutations(1 .. 4)

opts(q) ==
    << [orig_label |-> "a", text |-> q.option_a],
       [orig_label |-> "b", text |-> q.option_b],
       [orig_label |-> "c", text |-> q.option_c],
       [orig_label |-> "d", text |-> q.option_d] >>

correct_of(q) == IF Falsy(q.correct_label) THEN "" ELSE Lower(q.correct_label)

\* The choices of one question after the shuffle sh (display slot -> option).
choices_wrong(q, sh) ==
    [i \in 1 .. 4 |->
        [display_label |-> display_labels[i],
         text |-> opts(q)[sh[i]].text,
         is_correct |-> (display_labels[i] = correct_of(q))]]

choices(q, sh) ==
    [i \in 1 .. 4 |->
        [display_label |-> display_labels[i],
         text |-> opts(q)[sh[i]].text,
         is_correct |-> (opts(q)[sh[i]].orig_label = correct_of(q))]]

\* correct_display: the label of the last choice flagged, None when none is.
correct_display(ch) ==
    LET flagged == { i \in 1 .. 4 : ch[i].is_correct }
    IN  IF flagged = {} THEN NoneVal
        ELSE display_labels[CHOOSE i \in flagged : \A j \in flagged : j <= i]

\* Every outcome of lines 115-123 for each row the table may hold, computed
\* once.
ChoicesOf ==
    [q \in { QuestionPool[n] : n \in DOMAIN QuestionPool } |->
        { choices(q, sh) : sh \in Shuffles }]

entry(qid, ch) ==
    LET q == load_question_by_id(qid)
    IN  [id |-> qid, text |-> q.text, choices |-> ch,
         correct_display |-> correct_display(ch)]

\* Every question_data the loop of index can build for the sample chosen.
RECURSIVE build(_)
build(chosen) ==
    IF chosen = << >> THEN { << >> }
    ELSE { << first >> \o rest :
             first \in { entry(Head(chosen), ch) :
                            ch \in ChoicesOf[load_question_by_id(Head(chosen))] },
             rest \in build(Tail(chosen)) }


\* A limit that would be stored in minutes.
limit_in_minutes(time_minutes) == time_minutes

\* session['time_limit_seconds'] = time_minutes * 60
limit_in_seconds(time_minutes) == time_minutes * 60

\* GET /, POST /
index(method, num_questions, time_limit) ==
    /\ prog = "exam_app"
    /\ LET total == Cardinality(get_all_question_ids) IN
       IF method = "GET"
         THEN /\ resp' = Response("index", 200, "form", total, NoReport)
              /\ UNCHANGED sessionVars
       ELSE IF ~IsIntText(num_questions) \/ ~IsIntText(time_limit)
         THEN /\ resp' = Response("index", 400, "bad_request", 0, NoReport)
              /\ UNCHANGED sessionVars
       ELSE IF int(num_questions) <= 0 \/ int(num_questions) > total
         THEN /\ resp' = Response("index", 400, "bad_request", 0, NoReport)
              /\ UNCHANGED sessionVars
       ELSE IF int(time_limit) <= 0
         THEN /\ resp' = Response("index", 400, "bad_request", 0, NoReport)
              /\ UNCHANGED sessionVars
       ELSE /\ \E chosen \in Samples(get_all_question_ids, int(num_questions)) :
                 \E qd \in build(chosen) :
                    question_data' = qd
            /\ has_question_data' = TRUE
            /\ answers' = << >>
            /\ num_q' = int(num_questions)
            /\ time_limit_seconds' = limit_in_seconds(int(time_limit))
            /\ start_time' = now
            /\ resp' = Response("index", 302, "redirect_exam", 1, NoReport)
    /\ UNCHANGED << prog, call, locals, sqlite_sequence, now, db, appVars >>

\* None is returned when no start time is stored; the model writes it -1.
NoneSeconds == -1

\* A time_left_seconds without the max(0, .).
time_left_seconds_unclamped ==
    IF start_time = 0 THEN NoneSeconds
    ELSE time_limit_seconds - (now - start_time)

time_left_seconds ==
    IF start_time = 0 THEN NoneSeconds
    ELSE Max(0, time_limit_seconds - (now - start_time))

\* The letters a choice field may carry: display labels, a letter that is no
\* display label, and the empty string (also: no choice field at all).
ChoiceInputs == { "", "a", "e" }
NavInputs == { "none", "next", "prev", "goto", "finish" }
GotoInputs == { ToString(n) : n \in 0 .. MaxGoto } \cup { "x" }

\* A store that would keep the answer of the posted position only.
store_answer_alone(idx, chosen) == [p \in { idx } |-> chosen]

\* answers[str(idx)] = chosen
store_answer(idx, chosen) ==
    [p \in (DOMAIN answers) \cup {idx} |-> IF p = idx THEN chosen ELSE answers[p]]

\* Lines 193-203 of exam: the response after the answer was handled.
exam_response(method, idx, nav, goto_idx) ==
    IF method = "POST" /\ nav = "next"
        THEN Response("exam", 302, "redirect_exam", Min(num_q, idx + 1), NoReport)
    ELSE IF method = "POST" /\ nav = "prev"
        THEN Response("exam", 302, "redirect_exam", Max(1, idx - 1), NoReport)
    ELSE IF method = "POST" /\ nav = "goto"
        THEN IF ~IsIntText(goto_idx)
                THEN Response("exam", 500, "error", 0, NoReport)
                ELSE Response("exam", 302, "redirect_exam", int(goto_idx), NoReport)
    ELSE IF method = "POST" /\ nav = "finish"
        THEN Response("exam", 302, "redirect_finish", 0, NoReport)
    ELSE Response("exam", 200, "page", idx, NoReport)

\* An exam that would never look at the clock.
exam_ignoring_clock(method, idx, chosen, nav, goto_idx) ==
    /\ prog = "exam_app"
    /\ IF ~has_question_data
         THEN /\ resp' = Response("exam", 302, "redirect_index", 0, NoReport)
              /\ UNCHANGED answers
       ELSE IF idx < 1 \/ idx > num_q
         THEN /\ resp' = Response("exam", 302, "redirect_exam", 1, NoReport)
              /\ UNCHANGED answers
       ELSE /\ answers' = IF method = "POST" /\ chosen # ""
                            THEN store_answer(idx, chosen)
                            ELSE answers
            /\ resp' = exam_response(method, idx, nav, goto_idx)
    /\ UNCHANGED << prog, call, locals, sqlite_sequence, now, db, has_question_data, question_data, num_q,
                    time_limit_seconds, start_time, appVars >>

\* An exam that would take any position.
exam_any_position(method, idx, chosen, nav, goto_idx) ==
    /\ prog = "exam_app"
    /\ IF ~has_question_data
         THEN /\ resp' = Response("exam", 302, "redirect_index", 0, NoReport)
              /\ UNCHANGED answers
       ELSE IF time_left_seconds = 0
         THEN /\ resp' = Response("exam", 302, "redirect_finish_time_up", 0, NoReport)
              /\ UNCHANGED answers
       ELSE /\ answers' = IF method = "POST" /\ chosen # ""
                            THEN store_answer(idx, chosen)
                            ELSE answers
            /\ resp' = exam_response(method, idx, nav, goto_idx)
    /\ UNCHANGED << prog, call, locals, sqlite_sequence, now, db, has_question_data, question_data, num_q,
                    time_limit_seconds, start_time, appVars >>

\* GET or POST /exam/<idx>
exam(method, idx, chosen, nav, goto_idx) ==
    /\ prog = "exam_app"
    /\ IF ~has_question_data
         THEN /\ resp' = Response("exam", 302, "redirect_index", 0, NoReport)
              /\ UNCHANGED answers
       ELSE IF idx < 1 \/ idx > num_q
         THEN /\ resp' = Response("exam", 302, "redirect_exam", 1, NoReport)
              /\ UNCHANGED answers
       ELSE IF time_left_seconds = 0
         THEN /\ resp' = Response("exam", 302, "redirect_finish_time_up", 0, NoReport)
              /\ UNCHANGED answers
       ELSE /\ answers' = IF method = "POST" /\ chosen # ""
                            THEN store_answer(idx, chosen)
                            ELSE answers
            /\ resp' = exam_response(method, idx, nav, goto_idx)
    /\ UNCHANGED << prog, call, locals, sqlite_sequence, now, db, has_question_data, question_data, num_q,
                    time_limit_seconds, start_time, appVars >>

\* One row of the result table of finish.
result_row(p) ==
    LET chosen  == IF p \in DOMAIN answers THEN answers[p] ELSE NoneVal
        correct == question_data[p].correct_display
    IN  [idx |-> p, chosen |-> chosen, correct |-> correct,
         is_right |-> (chosen = correct)]

\* Lines 280-297 of finish: the rows and the score on the scale of 10.
finish_report ==
    LET results == [p \in DOMAIN question_data |-> result_row(p)]
        total   == Len(question_data)
        correct_count == Cardinality({ p \in DOMAIN results : results[p].is_right })
    IN  [results |-> results,
         score |-> IF total > 0 THEN Round2(correct_count * 10, total) ELSE 0]

\* A finish that would also drop the answers it graded.
finish_clearing ==
    /\ prog = "exam_app"
    /\ resp' = Response("finish", 200, "result", 0, finish_report)
    /\ answers' = << >>
    /\ UNCHANGED << prog, call, locals, sqlite_sequence, now, db, has_question_data, question_data, num_q,
                    time_limit_seconds, start_time, appVars >>

\* A finish that would read the text of every question from the table again.
finish_reloading ==
    /\ prog = "exam_app"
    /\ resp' = Response("finish", 200, "result", 0, finish_report)
    /\ question_data' =
          [p \in DOMAIN question_data |->
              [question_data[p] EXCEPT
                  !.text = IF question_data[p].id \in DOMAIN db
                             THEN load_question_by_id(question_data[p].id).text
                             ELSE ""]]
    /\ UNCHANGED << prog, call, locals, sqlite_sequence, now, db, has_question_data, answers, num_q,
                    time_limit_seconds, start_time, appVars >>

\* GET /finish
finish ==
    /\ prog = "exam_app"
    /\ resp' = Response("finish", 200, "result", 0, finish_report)
    /\ UNCHANGED << prog, call, locals, sqlite_sequence, now, examVars, appVars >>

\* The wall clock advances.
Tick ==
    /\ now + TickSec <= BootTime + MaxTicks * TickSec
    /\ now' = now + TickSec
    /\ UNCHANGED << prog, call, locals, sqlite_sequence, examVars, appVars, resp >>

\* The wall clock advances by a part of a minute.
Elapse ==
    /\ now + ClockStep <= BootTime + ClockSteps * ClockStep
    /\ now' = now + ClockStep
    /\ UNCHANGED << prog, call, locals, sqlite_sequence, examVars, appVars, resp >>

----------------------------------------------------------------------------
(* app.py                                                                  *)

\* A line of the extracted text after strip(), by the pattern it matches:
\* QUESTION_START_RE (k = "Q": number, rest), OPTION_RE (k = "O": letter,
\* rest), ANSWER_RE (k = "A": letter), no pattern (k = "T": the line) or the
\* empty line (k = "B").  No line matches two of the patterns.
QLine(n, rest)      == [k |-> "Q", num |-> n, letter |-> "", rest |-> rest]
OLine(letter, rest) == [k |-> "O", num |-> 0, letter |-> letter, rest |-> rest]
ALine(letter)       == [k |-> "A", num |-> 0, letter |-> letter, rest |-> ""]
TLine(rest)         == [k |-> "T", num |-> 0, letter |-> "", rest |-> rest]
BLine               == [k |-> "B", num |-> 0, letter |-> "", rest |-> ""]

\* str.upper() on the letters that occur.
Upper(s) ==
    CASE s = "a" -> "A" [] s = "b" -> "B" [] s = "c" -> "C" [] s = "d" -> "D"
      [] s = "e" -> "E" [] s = "f" -> "F" [] OTHER -> s

\* str.strip() on the form values that occur.
Strip(s) == CASE s = " b" -> "b" [] s = " " -> "" [] OTHER -> s

\* A dict in insertion order: a sequence of (key, value) pairs.
HasKey(d, key) == \E n \in 1 .. Len(d) : d[n][1] = key
DictGet(d, key) == d[CHOOSE n \in 1 .. Len(d) : d[n][1] = key][2]
DictSet(d, key, val) ==
    IF HasKey(d, key)
      THEN [n \in 1 .. Len(d) |-> IF d[n][1] = key THEN << key, val >> ELSE d[n]]
      ELSE Append(d, << key, val >>)

\* " ".join(parts)
RECURSIVE Join(_)
Join(parts) ==
    IF parts = << >> THEN ""
    ELSE IF Len(parts) = 1 THEN parts[1]
    ELSE parts[1] \o " " \o Join(Tail(parts))

IsMarker(line) == line.k \in { "O", "A", "Q" }

\* Lines 125-130: the extra prompt lines.
RECURSIVE prompt_loop(_, _, _)
prompt_loop(lines, i, prompt_lines) ==
    IF i > Len(lines) \/ IsMarker(lines[i])
      THEN [i |-> i, out |-> prompt_lines]
      ELSE prompt_loop(lines, i + 1,
                       IF lines[i].k # "B" THEN Append(prompt_lines, lines[i].rest)
                                           ELSE prompt_lines)

\* Lines 141-146 left out: an option ends with its own line.
option_body_one_line(lines, i, text) == [i |-> i, out |-> text]

\* Lines 141-146: the continuation lines of one option.
RECURSIVE option_body_loop(_, _, _)
option_body_loop(lines, i, text) ==
    IF i > Len(lines) \/ IsMarker(lines[i])
      THEN [i |-> i, out |-> text]
      ELSE option_body_loop(lines, i + 1,
                            IF lines[i].k # "B" THEN text \o " " \o lines[i].rest
                                                ELSE text)

\* Lines 133-149: the options of one block.
RECURSIVE options_loop(_, _, _)
options_loop(lines, i, options) ==
    IF i <= Len(lines) /\ lines[i].k = "O"
      THEN LET letter == Upper(lines[i].letter)
               body   == option_body_loop(lines, i + 1, lines[i].rest)
           IN  options_loop(lines, body.i, DictSet(options, letter, body.out))
      ELSE [i |-> i, out |-> options]

MaxNumber(questions) ==
    CHOOSE m \in { questions[n].number : n \in 1 .. Len(questions) } :
        \A n \in 1 .. Len(questions) : questions[n].number <= m

\* Lines 157-159 kept for a block without options.
keeps_block_always(options) == TRUE

\* Lines 157-159: a block is stored when it has an option.
keeps_block(options) == options # << >>

\* Lines 160-162 left out: the answer letter is kept as given.
checked_answer_kept(given, options) == given

\* Lines 160-162: an answer letter that is no option is dropped.
checked_answer(given, options) ==
    IF given # NoneVal /\ ~HasKey(options, given) THEN NoneVal ELSE given

\* Lines 169-171 left out: the declared number is kept.
assigned_number_declared(declared, questions, qnum_seen) == declared

\* Lines 169-171: a number seen before is replaced by the largest number
\* stored plus 1.
assigned_number(declared, questions, qnum_seen) ==
    IF declared \in qnum_seen
      THEN IF questions # << >> THEN MaxNumber(questions) + 1 ELSE 1
      ELSE declared

\* Lines 152-154 with the index stepping back after the answer line.
after_answer_stepping_back(has, i) == IF has THEN i - 1 ELSE i

\* Lines 152-154: the index after the optional answer line at line i.
after_answer(has, i) == IF has THEN i + 1 ELSE i

\* Lines 110-174: one turn of the outer loop at line i: the index, the list
\* and the numbers seen after it.
outer_turn(lines, i, questions, qnum_seen) ==
    IF lines[i].k # "Q"
      THEN [i |-> i + 1, questions |-> questions, qnum_seen |-> qnum_seen]
    ELSE
      LET prompt_first == lines[i].rest
          p   == prompt_loop(lines, i + 1,
                             IF prompt_first # "" THEN << prompt_first >> ELSE << >>)
          o   == options_loop(lines, p.i, << >>)
          has == o.i <= Len(lines) /\ lines[o.i].k = "A"
          j   == after_answer(has, o.i)
          given  == IF has THEN Upper(lines[o.i].letter) ELSE NoneVal
          answer == checked_answer(given, o.out)
          joined == Join(p.out)
          prompt == IF joined = "" THEN "Question " \o ToString(lines[i].num)
                                   ELSE joined
          qnum == assigned_number(lines[i].num, questions, qnum_seen)
      IN  IF ~keeps_block(o.out)
            THEN [i |-> j, questions |-> questions, qnum_seen |-> qnum_seen]
            ELSE [i |-> j,
                  questions |->
                      Append(questions,
                             [number |-> qnum, prompt |-> prompt,
                              options |-> o.out,
                              answer |-> IF answer = NoneVal THEN "" ELSE answer]),
                  qnum_seen |-> qnum_seen \cup {qnum}]

\* Lines 109-174: the outer loop, from line i on.
RECURSIVE parse_loop(_, _, _, _)
parse_loop(lines, i, questions, qnum_seen) ==
    IF i > Len(lines) THEN questions
    ELSE LET turn == outer_turn(lines, i, questions, qnum_seen)
         IN  parse_loop(lines, turn.i, turn.questions, turn.qnum_seen)

parse_pdf_text(lines) == parse_loop(lines, 1, << >>, {})

\* The texts of the PDFs uploaded: no question; one question; two questions,
\* the first with its options out of order, the second with an empty prompt
\* and no answer line.
PdfTexts ==
    { << TLine("Quiz") >>,
      << QLine(1, "What is 2+2?"), OLine("b", "4"), OLine("A", "3"),
         ALine("b"), BLine, QLine(2, ""), OLine("A", "x"), TLine("more") >> }

\* What request.files holds: no file, a file PyPDF2 cannot read, a PDF.
Unreadable == << TLine("%unreadable%") >>
NoFile == << >>
FileInputs == { NoFile, Unreadable } \cup PdfTexts

\* all_qs = parse_pdf_text(text) of line 372, for each file that may be
\* uploaded.
ParsedQuestions == [file \in FileInputs |-> parse_pdf_text(file)]
parsed_questions(file) == ParsedQuestions[file]

\* The ids uuid4 may return, and the ids a client may ask for.
FreshIds == { "id1" }
QuizIds == FreshIds \cup { "unknown" }

\* Lines 352-377 of upload: the message flashed when the request is turned
\* back to the home page, "" when it goes on to build a quiz.
upload_refusal_keeping_empty(file, num_text, time_text) ==
    IF file = NoFile THEN "no_file"
    ELSE IF ~IsIntText(num_text) \/ ~IsIntText(time_text) THEN "bad_number"
    ELSE IF file = Unreadable THEN "pdf_error"
    ELSE ""

upload_refusal(file, num_text, time_text) ==
    IF file = NoFile THEN "no_file"
    ELSE IF ~IsIntText(num_text) \/ ~IsIntText(time_text) THEN "bad_number"
    ELSE IF file = Unreadable THEN "pdf_error"
    ELSE IF parsed_questions(file) = << >> THEN "no_questions"
    ELSE ""

\* Lines 379-381 of upload: the number of questions to sample.
sample_size_unclamped(asked, available) == asked

sample_size(asked, available) == IF asked > available THEN available ELSE asked

\* POST /upload, uuid4 returning one of ids
upload_with(ids, file, num_text, time_text) ==
    /\ prog = "app"
    /\ LET refusal == upload_refusal(file, num_text, time_text) IN
       IF refusal # ""
         THEN /\ resp' = Flashed(Response("upload", 302, "redirect_home", 0, NoReport),
                                 refusal)
              /\ UNCHANGED appVars
         ELSE LET all_qs == parsed_questions(file)
                  asked  == int(num_text)
                  num    == sample_size(asked, Len(all_qs))
                  warn   == IF asked > Len(all_qs) THEN "count_clamped" ELSE ""
              IN  IF num < 0 \/ num > Len(all_qs)
                    \* random.sample raises ValueError, nothing handles it
                    THEN /\ resp' = Flashed(Response("upload", 500, "error", 0,
                                                     NoReport), warn)
                         /\ UNCHANGED appVars
                    ELSE \E picked \in Samples(1 .. Len(all_qs), num) :
                         \E quiz_id \in ids \ DOMAIN QUIZ_STORE :
                            /\ QUIZ_STORE' =
                                 [k \in (DOMAIN QUIZ_STORE) \cup {quiz_id} |->
                                    IF k = quiz_id
                                      THEN [time_limit_sec |->
                                                Max(1, int(time_text) * 60),
                                            questions |->
                                                [n \in 1 .. num |-> all_qs[picked[n]]]]
                                      ELSE QUIZ_STORE[k]]
                            /\ created' =
                                 [k \in (DOMAIN QUIZ_STORE) \cup {quiz_id} |->
                                    IF k = quiz_id THEN now ELSE created[k]]
                            /\ resp' = Flashed(ForQuiz(Response("upload", 302,
                                                                "redirect_quiz", num,
                                                                NoReport), quiz_id),
                                               warn)
    /\ UNCHANGED << prog, call, locals, sqlite_sequence, now, examVars >>

\* POST /upload
upload(file, num_text, time_text) == upload_with(FreshIds, file, num_text, time_text)

OPTION_LETTERS == << "A", "B", "C", "D", "E", "F" >>

\* {k: options[k] for k in sorted(options.keys())}
sorted_options(options) ==
    LET keys == SelectSeq(OPTION_LETTERS, LAMBDA k : HasKey(options, k))
    IN  [n \in 1 .. Len(keys) |-> << keys[n], DictGet(options, keys[n]) >>]

\* A quiz that would put the options of every stored quiz in order, as it
\* would if the quizzes held the same Question objects.
quiz_over_shared_questions(quiz_id) ==
    /\ prog = "app"
    /\ IF quiz_id \notin DOMAIN QUIZ_STORE
         THEN /\ resp' = ForQuiz(Response("quiz", 404, "not_found", 0, NoReport), quiz_id)
              /\ UNCHANGED QUIZ_STORE
         ELSE /\ QUIZ_STORE' =
                   [k \in DOMAIN QUIZ_STORE |->
                      [QUIZ_STORE[k] EXCEPT !.questions =
                         [n \in DOMAIN @ |->
                            [@[n] EXCEPT !.options = sorted_options(@)]]]]
              /\ resp' = ForQuiz(Response("quiz", 200, "page",
                                          QUIZ_STORE[quiz_id].time_limit_sec, NoReport),
                                 quiz_id)
    /\ UNCHANGED << prog, call, locals, sqlite_sequence, now, examVars, created >>

\* GET /quiz/<quiz_id>
quiz(quiz_id) ==
    /\ prog = "app"
    /\ IF quiz_id \notin DOMAIN QUIZ_STORE
         THEN /\ resp' = ForQuiz(Response("quiz", 404, "not_found", 0, NoReport), quiz_id)
              /\ UNCHANGED QUIZ_STORE
         ELSE /\ QUIZ_STORE' =
                   [QUIZ_STORE EXCEPT ![quiz_id].questions =
                      [n \in DOMAIN @ |->
                          [@[n] EXCEPT !.options = sorted_options(@)]]]
              /\ resp' = ForQuiz(Response("quiz", 200, "page",
                                          QUIZ_STORE[quiz_id].time_limit_sec, NoReport),
                                 quiz_id)
    /\ UNCHANGED << prog, call, locals, sqlite_sequence, now, examVars, created >>

\* What the form of submit may hold for one question: no field, an empty
\* field, a letter, a letter to be stripped and upper-cased.
FormValues == { NoneVal, "", " b" }

\* Lines 413-418 of submit: the answer read for one question.
user_answer(val) == IF Falsy(val) THEN val ELSE Upper(Strip(val))

\* Lines 420-433 of submit, for a quiz with at least one question.
submit_report(questions, form) ==
    LET details == [n \in DOMAIN questions |->
                      LET ans == user_answer(form[n])
                          key == IF questions[n].answer = "" THEN NoneVal
                                 ELSE questions[n].answer
                      IN  [idx |-> n, chosen |-> ans,
                           correct |-> IF questions[n].answer = "" THEN "?"
                                       ELSE questions[n].answer,
                           is_right |-> (ans = key)]]
        correct == Cardinality({ n \in DOMAIN details : details[n].is_right })
    IN  [results |-> details, score |-> Round2(correct * 100, Len(questions))]

\* POST /submit/<quiz_id>
submit(quiz_id) ==
    /\ prog = "app"
    /\ IF quiz_id \notin DOMAIN QUIZ_STORE
         THEN resp' = ForQuiz(Response("submit", 404, "not_found", 0, NoReport), quiz_id)
       ELSE IF Len(QUIZ_STORE[quiz_id].questions) = 0
         \* ZeroDivisionError at line 433, nothing handles it
         THEN resp' = ForQuiz(Response("submit", 500, "error", 0, NoReport), quiz_id)
       ELSE \E form \in [DOMAIN QUIZ_STORE[quiz_id].questions -> FormValues] :
               resp' = ForQuiz(Response("submit", 200, "result", 0,
                                        submit_report(QUIZ_STORE[quiz_id].questions,
                                                      form)),
                               quiz_id)
    /\ UNCHANGED << prog, call, locals, sqlite_sequence, now, examVars, appVars >>

----------------------------------------------------------------------------
(* upload_questions.py: parse_excel_dataframe.                             *)

\* pandas' NaN, an empty cell of the sheet.
NaN == "<NaN>"

\* The first column of a row, written by what the parser reads in it after
\* str(cell_q).strip():
\*   "cau"     a text that starts with the question word: label is the
\*             prefix Q_PREFIX_RE removes, text what follows it (possibly
\*             nothing), inline the options written in the same cell, each
\*             << letter, value >>, the first one lettered a;
\*   "choice"  a text CHOICE_LINE_RE matches: label is the letter (of either
\*             case), text the value after the full stop;
\*   "text"    any other text;
\*   "nan"     an empty cell.
CauCell(prefix, rest, inline) ==
    [kind |-> "cau", label |-> prefix, text |-> rest, inline |-> inline]
ChoiceCell(lab, val) ==
    [kind |-> "choice", label |-> lab, text |-> val, inline |-> << >>]
TextCell(text) ==
    [kind |-> "text", label |-> "", text |-> text, inline |-> << >>]
NaNCell == [kind |-> "nan", label |-> "", text |-> "", inline |-> << >>]

\* mark = str(cell_a).strip().lower(), or '' for an empty second column.
mark_of(cell_a) == IF cell_a = NaN THEN "" ELSE Lower(cell_a)

\* opts = {} and opts[lab] = val; len(opts) is the number of its keys.
NoOpts == [l \in {} |-> ""]
put(options, lab, val) ==
    [l \in DOMAIN options \cup { lab } |-> IF l = lab THEN val ELSE options[l]]
len(options) == Cardinality(DOMAIN options)

\* The options found in the cell of the question itself: found[lab] = val
\* for every match, a later one replacing an earlier one of the same letter.
RECURSIVE found_options(_)
found_options(inline) ==
    IF inline = << >> THEN NoOpts
    ELSE LET last == inline[Len(inline)]
         IN  put(found_options(SubSeq(inline, 1, Len(inline) - 1)),
                 Lower(last[1]), last[2])

\* text[:m.start()].strip(): the cell up to its first option, prefix included.
text_before_options(cell) ==
    IF cell.text = "" THEN cell.label ELSE cell.label \o " " \o cell.text

\* Q_PREFIX_RE.sub('', text).strip(): what follows the prefix.
qtext_of(cell) == cell.text

\* The locals before the first row: questions = [], current_q = None,
\* opts = {}, correct = None.  rows counts the rows the loop has taken and
\* row is the one it took last.
NoLocals ==
    [rows |-> 0, row |-> [cell |-> NaNCell, mark |-> NaN],
     questions |-> << >>, current_q |-> NoneVal, opts |-> NoOpts,
     correct |-> NoneVal]

\* 'if current_q': None and '' are both false.
is_open(current_q) == ~Falsy(current_q)

\* questions.append({'question': ..., 'options': opts.copy(), 'correct': ...})
question_of(current_q, options, correct) ==
    [question |-> current_q, options |-> options, correct |-> correct]

\* The body of the loop for a row whose first cell starts a question.
question_row(l, cell) ==
    LET questions ==
            IF is_open(l.current_q) /\ len(l.opts) = 4
            THEN Append(l.questions, question_of(l.current_q, l.opts, l.correct))
            ELSE l.questions
    IN  IF cell.inline # << >>
        THEN LET found == found_options(cell.inline)
                 qtext == text_before_options(cell)
             IN  IF len(found) = 4
                 THEN [l EXCEPT !.questions =
                                    Append(questions, question_of(qtext, found, NoneVal)),
                                !.current_q = NoneVal, !.opts = NoOpts,
                                !.correct = NoneVal]
                 ELSE [l EXCEPT !.questions = questions, !.current_q = qtext,
                                !.opts = found, !.correct = NoneVal]
        ELSE [l EXCEPT !.questions = questions, !.current_q = qtext_of(cell),
                       !.opts = NoOpts, !.correct = NoneVal]

\* The body of the loop for a row whose first cell is an option line.
choice_row(l, cell, mark) ==
    LET lab == Lower(cell.label)
        options == put(l.opts, lab, cell.text)
        correct == IF mark = "x" THEN lab ELSE l.correct
    IN  IF len(options) = 4 /\ is_open(l.current_q)
        THEN [l EXCEPT !.questions =
                           Append(@, question_of(l.current_q, options, correct)),
                       !.current_q = NoneVal, !.opts = NoOpts,
                       !.correct = NoneVal]
        ELSE [l EXCEPT !.opts = options, !.correct = correct]

\* The body of the loop for a row of any other text.
other_row(l, cell) ==
    IF is_open(l.current_q) /\ len(l.opts) = 0
    THEN [l EXCEPT !.current_q = @ \o "\n" \o cell.text]
    ELSE l

\* One turn of 'for _, row in df.iterrows()'.
loop_body(l, row) ==
    LET cell == row.cell
        mark == mark_of(row.mark)
        taken == [l EXCEPT !.rows = @ + 1, !.row = row]
    IN  CASE cell.kind = "nan" -> taken
          [] cell.kind = "cau" -> question_row(taken, cell)
          [] cell.kind = "choice" -> choice_row(taken, cell, mark)
          [] OTHER -> other_row(taken, cell)

\* After the loop: 'finalize last if any', and the list is returned.
returned_questions(l) ==
    IF is_open(l.current_q) /\ len(l.opts) = 4
    THEN Append(l.questions, question_of(l.current_q, l.opts, l.correct))
    ELSE l.questions

----------------------------------------------------------------------------
(* The two programs as state machines.                                     *)

NoRows == [id \in {} |-> 0]

\* No parser has been called on its own.
NoCall == [fn |-> "none", arg |-> << >>, returned |-> FALSE, ret |-> << >>]

Init ==
    /\ prog \in { "exam_app", "app" }
    /\ now = BootTime
    /\ db \in IF prog = "exam_app" THEN Tables ELSE { NoRows }
    /\ has_question_data = FALSE
    /\ question_data = << >>
    /\ answers = << >>
    /\ num_q = 0
    /\ time_limit_seconds = 0
    /\ start_time = 0
    /\ QUIZ_STORE = [k \in {} |-> 0]
    /\ created = [k \in {} |-> 0]
    /\ call = NoCall
    /\ locals = NoLocals
    /\ sqlite_sequence = Cardinality(DOMAIN db)
    /\ resp = Response("none", 0, "none", 0, NoReport)

\* The requests a client may send.
IndexRequests ==
    { [method |-> "GET", num_questions |-> "0", time_limit |-> "0"] }
    \cup [method : { "POST" }, num_questions : NumInputs, time_limit : MinuteInputs]

ExamRequests ==
    [method : { "GET" }, idx : 0 .. MaxGoto, chosen : { "" }, nav : { "none" },
     goto_idx : { "1" }]
    \cup [method : { "POST" }, idx : 0 .. MaxIdx, chosen : ChoiceInputs,
          nav : NavInputs \ { "goto" }, goto_idx : { "1" }]
    \cup [method : { "POST" }, idx : 0 .. MaxIdx, chosen : ChoiceInputs,
          nav : { "goto" }, goto_idx : GotoInputs]

UploadRequests ==
    [file : { NoFile, Unreadable }, num_text : { "1" }, time_text : { "1" }]
    \cup [file : PdfTexts, num_text : NumInputs, time_text : MinuteInputs]

NextExam ==
    \/ Tick
    \/ \E r \in IndexRequests : index(r.method, r.num_questions, r.time_limit)
    \/ \E r \in ExamRequests : exam(r.method, r.idx, r.chosen, r.nav, r.goto_idx)
    \/ finish

NextApp ==
    \/ Tick
    \/ \E r \in UploadRequests : upload(r.file, r.num_text, r.time_text)
    \/ \E quiz_id \in QuizIds : quiz(quiz_id)
    \/ \E quiz_id \in QuizIds : submit(quiz_id)

Next == NextExam \/ NextApp

\* Runs of either program.
Spec == Init /\ [][Next]_vars

\* Runs of exam_app.py.
InitExam == Init /\ prog = "exam_app"
SpecExam == InitExam /\ [][NextExam]_vars

\* Runs of app.py.
InitApp == Init /\ prog = "app"
SpecApp == InitApp /\ [][NextApp]_vars

\* Runs of app.py with several takers: uuid4 has more than one id to return,
\* so that several quizzes are in the store at a time, and the requests of
\* the takers (uploads of the same PDF, pages, submissions) interleave in
\* any order.
StoreIds == { "id1", "id2" }

StoreUploads ==
    [file : { f \in PdfTexts : parsed_questions(f) # << >> },
     num_text : { "1", "2" }, time_text : { "0", "1" }]

NextStore ==
    \/ \E r \in StoreUploads : upload_with(StoreIds, r.file, r.num_text, r.time_text)
    \/ \E quiz_id \in StoreIds \cup { "unknown" } : quiz(quiz_id)
    \/ \E quiz_id \in StoreIds \cup { "unknown" } : submit(quiz_id)

SpecStore == InitApp /\ [][NextStore]_vars

\* Runs of exam_app.py under the finer clock: sessions are built and pages
\* are fetched while the time runs out.
NextClock ==
    \/ Elapse
    \/ \E r \in IndexRequests : index(r.method, r.num_questions, r.time_limit)
    \/ \E idx \in 1 .. MaxIdx : exam("GET", idx, "", "none", "1")

SpecClock == InitExam /\ [][NextClock]_vars

\* Runs of exam_app.py while the questions table behind DB_FILE is changed
\* by the admin program: rows are deleted, or questions are imported again
\* and an id now names another question.
BankTables ==
    Tables
    \cup { [id \in 1 .. Len(QuestionPool) |->
               QuestionPool[Len(QuestionPool) + 1 - id]] }

bank_changes ==
    /\ prog = "exam_app"
    /\ \E table \in BankTables \ { db } : db' = table
    /\ UNCHANGED << prog, call, locals, sqlite_sequence, now, sessionVars, appVars, resp >>

NextBank ==
    \/ Tick
    \/ \E r \in IndexRequests : index(r.method, r.num_questions, r.time_limit)
    \/ \E idx \in 1 .. MaxIdx, nav \in { "none", "next" } :
          exam("POST", idx, "a", nav, "1")
    \/ finish
    \/ bank_changes

SpecBank == InitExam /\ [][NextBank]_vars

\* parse_pdf_text called on its own: the text is put together line by line,
\* then the call returns.
ParseLines ==
    { QLine(1, "p"), QLine(2, ""), OLine("A", "x"), OLine("b", "y"),
      ALine("B"), TLine("t"), BLine }

InitParse ==
    /\ prog = "app"
    /\ now = BootTime
    /\ db = NoRows
    /\ has_question_data = FALSE
    /\ question_data = << >>
    /\ answers = << >>
    /\ num_q = 0
    /\ time_limit_seconds = 0
    /\ start_time = 0
    /\ QUIZ_STORE = [k \in {} |-> 0]
    /\ created = [k \in {} |-> 0]
    /\ resp = Response("none", 0, "none", 0, NoReport)
    /\ locals = NoLocals
    /\ sqlite_sequence = 0
    /\ call = [NoCall EXCEPT !.fn = "parse_pdf_text"]

\* One more line of the text.
text_line(line) ==
    /\ call.fn = "parse_pdf_text" /\ ~call.returned
    /\ Len(call.arg) < MaxLines
    /\ call' = [call EXCEPT !.arg = Append(@, line)]
    /\ UNCHANGED << prog, now, examVars, appVars, locals, sqlite_sequence, resp >>

parse ==
    /\ call.fn = "parse_pdf_text" /\ ~call.returned
    /\ call' = [call EXCEPT !.returned = TRUE, !.ret = parse_pdf_text(call.arg)]
    /\ UNCHANGED << prog, now, examVars, appVars, locals, sqlite_sequence, resp >>

NextParse ==
    \/ \E line \in ParseLines : text_line(line)
    \/ parse

SpecParse == InitParse /\ [][NextParse]_vars

\* parse_pdf_text followed turn by turn of its outer loop: the text is put
\* together line by line, the call starts with i = 0 (written 1 here, lines
\* being counted from 1), questions = [] and qnum_seen = set(), every turn
\* of 'while i < len(lines)' is a step, and the call returns when the
\* condition fails.  Once started the loop goes on by itself.  An empty
\* line moves the index as a line of text does, so the texts are made of
\* question, option, answer and text lines.
ScanLines ==
    { QLine(1, "p"), OLine("A", "x"), ALine("B"), TLine("t") }

MaxScanLines == MaxLines - 1

ScanStarted == locals # NoLocals

scan_text_line(line) ==
    /\ ~ScanStarted
    /\ Len(call.arg) < MaxScanLines
    /\ text_line(line)

scan_start ==
    /\ call.fn = "parse_pdf_text" /\ ~call.returned
    /\ ~ScanStarted
    /\ locals' = [i |-> 1, questions |-> << >>, qnum_seen |-> {}]
    /\ UNCHANGED << prog, now, examVars, appVars, call, sqlite_sequence, resp >>

scan_turn ==
    /\ call.fn = "parse_pdf_text" /\ ~call.returned
    /\ ScanStarted
    /\ locals.i <= Len(call.arg)
    /\ locals' = outer_turn(call.arg, locals.i, locals.questions, locals.qnum_seen)
    /\ UNCHANGED << prog, now, examVars, appVars, call, sqlite_sequence, resp >>

scan_return ==
    /\ call.fn = "parse_pdf_text" /\ ~call.returned
    /\ ScanStarted
    /\ locals.i > Len(call.arg)
    /\ call' = [call EXCEPT !.returned = TRUE, !.ret = locals.questions]
    /\ UNCHANGED << prog, now, examVars, appVars, locals, sqlite_sequence, resp >>

NextScan ==
    \/ \E line \in ScanLines : scan_text_line(line)
    \/ scan_start
    \/ scan_turn
    \/ scan_return

SpecScan ==
    InitParse /\ [][NextScan]_vars /\ WF_vars(scan_turn) /\ WF_vars(scan_return)

\* parse_pdf_text called on a text put together from whole blocks in the
\* expected format: a question line, option lines with letters of their own,
\* an answer line naming one of them, and a blank line anywhere or nowhere.
OptionRuns ==
    { << OLine("A", "x") >>, << OLine("b", "y"), OLine("A", "x") >> }

BareBlocks ==
    { << q >> \o run \o << ALine(letter) >> :
        q \in { QLine(1, "p"), QLine(2, "") },
        run \in OptionRuns,
        letter \in { "a", "B" } } 

WithBlank(block) ==
    { block }
    \cup { SubSeq(block, 1, n) \o << BLine >> \o SubSeq(block, n + 1, Len(block)) :
             n \in 0 .. Len(block) }

FormatBlocks ==
    UNION { WithBlank(block) :
              block \in { b \in BareBlocks :
                            \E n \in 2 .. Len(b) - 1 :
                                Upper(b[n].letter) = Upper(b[Len(b)].letter) } }

text_block(block) ==
    /\ call.fn = "parse_pdf_text" /\ ~call.returned
    /\ Cardinality({ n \in DOMAIN call.arg : call.arg[n].k = "Q" }) < MaxBlocks
    /\ call' = [call EXCEPT !.arg = @ \o block]
    /\ UNCHANGED << prog, now, examVars, appVars, locals, sqlite_sequence, resp >>

NextParseBlocks ==
    \/ \E block \in FormatBlocks : text_block(block)
    \/ parse

SpecParseBlocks == InitParse /\ [][NextParseBlocks]_vars

\* parse_excel_dataframe called on its own: the loop takes the rows of the
\* sheet one by one, then the call returns.  The rows: question cells with
\* and without text after the prefix, with no option, two options or all
\* four in the same cell; option lines of the four letters, one in upper
\* case; a line of other text; an empty cell; each with the second column
\* empty or marked.
ExcelCells ==
    { CauCell("Cau 1.", "p", << >>),
      CauCell("Cau 2.", "", << >>),
      CauCell("Cau 3.", "p", << << "a", "v" >>, << "B", "w" >> >>),
      CauCell("Cau 4.", "", << << "A", "v" >>, << "b", "w" >>,
                               << "c", "y" >>, << "d", "z" >> >>),
      ChoiceCell("a", "v"), ChoiceCell("B", "w"), ChoiceCell("c", "y"),
      ChoiceCell("d", "z"),
      TextCell("t"), NaNCell }

ExcelRows == [cell : ExcelCells, mark : { NaN, "X" }]

InitExcel ==
    /\ prog = "upload_questions"
    /\ now = BootTime
    /\ db = NoRows
    /\ has_question_data = FALSE
    /\ question_data = << >>
    /\ answers = << >>
    /\ num_q = 0
    /\ time_limit_seconds = 0
    /\ start_time = 0
    /\ QUIZ_STORE = [k \in {} |-> 0]
    /\ created = [k \in {} |-> 0]
    /\ resp = Response("none", 0, "none", 0, NoReport)
    /\ locals = NoLocals
    /\ sqlite_sequence = 0
    /\ call = [NoCall EXCEPT !.fn = "parse_excel_dataframe"]

\* The loop takes the next row.
excel_row(row) ==
    /\ call.fn = "parse_excel_dataframe" /\ ~call.returned
    /\ locals.rows < MaxRows
    /\ locals' = loop_body(locals, row)
    /\ UNCHANGED << prog, now, examVars, appVars, call, sqlite_sequence, resp >>

\* The sheet has no more rows.
excel_return ==
    /\ call.fn = "parse_excel_dataframe" /\ ~call.returned
    /\ call' = [call EXCEPT !.returned = TRUE, !.ret = returned_questions(locals)]
    /\ UNCHANGED << prog, now, examVars, appVars, locals, sqlite_sequence, resp >>

NextExcel ==
    \/ \E row \in ExcelRows : excel_row(row)
    \/ excel_return

SpecExcel == InitExcel /\ [][NextExcel]_vars

\* parse_excel_dataframe on a whole sheet: the loop over its rows, then the
\* return.
RECURSIVE run_loop(_, _)
run_loop(l, rows) ==
    IF rows = << >> THEN l
    ELSE run_loop(loop_body(l, Head(rows)), Tail(rows))

parse_excel_dataframe(df) == returned_questions(run_loop(NoLocals, df))

\* What request.files holds for upload_excel: no file, a file pandas cannot
\* read, or a sheet: one with a question over five rows, one with a question
\* in a single cell, and two in which no valid question is found (a line of
\* text only; a question with nothing after its prefix).
UnmarkedRow(cell) == [cell |-> cell, mark |-> NaN]
MarkedRow(cell) == [cell |-> cell, mark |-> "X"]

NoSheet == << >>
UnreadableSheet == << UnmarkedRow(TextCell("%unreadable%")) >>
Sheets ==
    { << UnmarkedRow(CauCell("Cau 1.", "p", << >>)),
         UnmarkedRow(ChoiceCell("a", "v")), MarkedRow(ChoiceCell("B", "w")),
         UnmarkedRow(ChoiceCell("c", "y")), UnmarkedRow(ChoiceCell("d", "z")) >>,
      << UnmarkedRow(CauCell("Cau 4.", "", << << "A", "v" >>, << "b", "w" >>,
                                             << "c", "y" >>, << "d", "z" >> >>)) >>,
      << UnmarkedRow(TextCell("t")) >>,
      << UnmarkedRow(CauCell("Cau 2.", "", << >>)),
         UnmarkedRow(ChoiceCell("a", "v")), MarkedRow(ChoiceCell("B", "w")),
         UnmarkedRow(ChoiceCell("c", "y")), UnmarkedRow(ChoiceCell("d", "z")) >> }

ExcelInputs == { NoSheet, UnreadableSheet } \cup Sheets

\* opts.setdefault(k, "") and opts_dict.get(k, '')
option_text(options, k) == IF k \in DOMAIN options THEN options[k] ELSE ""

\* The row save_question_to_db inserts for a parsed question.
saved_row(p) ==
    Row(p.question, option_text(p.options, "a"), option_text(p.options, "b"),
        option_text(p.options, "c"), option_text(p.options, "d"), p.correct)

\* The table after the loop of save_question_to_db over parsed: every row
\* gets the next id of AUTOINCREMENT.
saved(table, parsed) ==
    [id \in DOMAIN table \cup (sqlite_sequence + 1 .. sqlite_sequence + Len(parsed)) |->
        IF id \in DOMAIN table THEN table[id]
        ELSE saved_row(parsed[id - sqlite_sequence])]

\* POST /upload_excel
upload_excel(excel_file, overwrite) ==
    /\ prog = "upload_questions"
    /\ IF excel_file = NoSheet
         THEN /\ resp' = Flashed(Response("upload_excel", 302, "redirect_index", 0,
                                          NoReport), "no_file")
              /\ UNCHANGED << db, sqlite_sequence >>
       ELSE IF excel_file = UnreadableSheet
         THEN /\ resp' = Flashed(Response("upload_excel", 302, "redirect_index", 0,
                                          NoReport), "excel_error")
              /\ UNCHANGED << db, sqlite_sequence >>
       ELSE LET cleared == IF overwrite THEN NoRows ELSE db
                parsed  == parse_excel_dataframe(excel_file)
            IN  IF parsed = << >>
                  THEN /\ db' = cleared
                       /\ resp' = Flashed(Response("upload_excel", 302,
                                                   "redirect_index", 0, NoReport),
                                          "no_questions")
                       /\ UNCHANGED sqlite_sequence
                  ELSE /\ sqlite_sequence + Len(parsed) <= MaxBankIds
                       /\ db' = saved(cleared, parsed)
                       /\ sqlite_sequence' = sqlite_sequence + Len(parsed)
                       /\ resp' = Flashed(Response("upload_excel", 302,
                                                   "redirect_index", Len(parsed),
                                                   NoReport), "added")
    /\ UNCHANGED << prog, call, locals, now, sessionVars, appVars >>

\* Runs of upload_questions.py: the table starts empty or as earlier imports
\* left it.
InitAdmin ==
    /\ prog = "upload_questions"
    /\ now = BootTime
    /\ db \in Tables
    /\ has_question_data = FALSE
    /\ question_data = << >>
    /\ answers = << >>
    /\ num_q = 0
    /\ time_limit_seconds = 0
    /\ start_time = 0
    /\ QUIZ_STORE = [k \in {} |-> 0]
    /\ created = [k \in {} |-> 0]
    /\ resp = Response("none", 0, "none", 0, NoReport)
    /\ locals = NoLocals
    /\ sqlite_sequence = Cardinality(DOMAIN db)
    /\ call = NoCall

NextAdmin ==
    \E excel_file \in ExcelInputs, overwrite \in BOOLEAN :
        upload_excel(excel_file, overwrite)

SpecAdmin == InitAdmin /\ [][NextAdmin]_vars

----------------------------------------------------------------------------
(* Properties.                                                             *)

\* The time limit of the session has run out (stated without the handler's
\* own time_left_seconds).
Expired == now - start_time >= time_limit_seconds

\* The text the table holds for an option label.
OptionText(row, label) ==
    CASE label = "a" -> row.option_a [] label = "b" -> row.option_b
      [] label = "c" -> row.option_c [] label = "d" -> row.option_d

\* A graded row says "right" exactly when an answer was given, a correct
\* letter exists, and the two are the same letter.
RowGradedByMatch(row, answered, given, has_key, key) ==
    row.is_right <=> (answered /\ has_key /\ given = key)

FinishGradesByMatch ==
    resp.op = "finish" =>
        \A p \in DOMAIN resp.report.results :
            RowGradedByMatch(resp.report.results[p],
                             p \in DOMAIN answers,
                             IF p \in DOMAIN answers THEN answers[p] ELSE NoneVal,
                             question_data[p].correct_display # NoneVal,
                             question_data[p].correct_display)

SubmitGradesByMatch ==
    (resp.op = "submit" /\ resp.kind = "result") =>
        \A n \in DOMAIN resp.report.results :
            LET q == QUIZ_STORE[resp.quiz_id].questions[n]
                given == resp.report.results[n].chosen
            IN  RowGradedByMatch(resp.report.results[n],
                                 ~Falsy(given), given, q.answer # "", q.answer)

\* C1: in finish (exam_app) and in submit (app.py) a question is counted
\* correct if and only if an answer is recorded for it, it has a correct
\* letter, and the two are equal; in particular never when both are absent.
C1_GradedCorrectIffRecordedAnswerMatches ==
    FinishGradesByMatch /\ SubmitGradesByMatch

\* C2: once finish has been invoked for a session, a later request to exam
\* is rejected and leaves the recorded answers unchanged, even while time
\* remains.  Stated for the request that directly follows finish.
C2_NoAnswerStoredAfterFinish ==
    [][(resp.op = "finish" /\ has_question_data /\ resp'.op = "exam")
          => (answers' = answers /\ resp'.kind \notin { "page", "redirect_exam" })]_vars

\* C3: once the remaining time of a session is 0, every request to exam for
\* a position in 1..num_q, GET or POST, with or without a choice, is
\* redirected to finish and stores no answer.  (A step of an expired session
\* either does that, or it is no exam request for a position in 1..num_q.)
C3_ExpiredExamRedirectsToFinish ==
    [][(has_question_data /\ Expired /\ resp'.op = "exam") =>
          \/ /\ answers' = answers
             /\ resp'.code = 302
             /\ resp'.kind = "redirect_finish_time_up"
          \/ ~\E r \in ExamRequests :
                /\ r.idx \in 1 .. num_q
                /\ exam(r.method, r.idx, r.chosen, r.nav, r.goto_idx)]_vars

\* An expired session was asked for an in-range position while it held an
\* answer, and the request was sent on to finish.
C3_Witness ==
    /\ has_question_data /\ Expired
    /\ resp.op = "exam" /\ resp.kind = "redirect_finish_time_up"
    /\ answers # << >>

\* C4: answers posted to submit after the quiz's time_limit_sec has elapsed
\* since the quiz was created are not accepted for grading.
C4_SubmitAfterTimeLimitNotGraded ==
    [][\A quiz_id \in DOMAIN QUIZ_STORE :
          (now - created[quiz_id] > QUIZ_STORE[quiz_id].time_limit_sec
             /\ submit(quiz_id))
          => resp'.kind # "result"]_vars

\* C5: finish changes no session state, and a finish that follows a finish
\* with no request in between returns an equal report (rows and score).
C5_FinishIdempotent ==
    [][resp'.op = "finish"
          => (/\ UNCHANGED sessionVars
              /\ resp.op = "finish" => resp'.report = resp.report)]_vars

\* finish has graded a session that holds an answer.
C5_Witness ==
    /\ resp.op = "finish" /\ resp.kind = "result"
    /\ has_question_data /\ answers # << >>
    /\ \E p \in DOMAIN resp.report.results : resp.report.results[p].is_right

\* The entry built for one table row: its choices are the row's four options
\* in some order under the labels a..d; with a correct label a..d exactly one
\* choice is flagged, it carries the text of that option and correct_display
\* is its label; with no correct label nothing is flagged and
\* correct_display is None.
EntryMatchesRow(e, row) ==
    LET flagged == { i \in 1 .. 4 : e.choices[i].is_correct }
        texts   == { OptionText(row, l) : l \in { "a", "b", "c", "d" } }
    IN  /\ DOMAIN e.choices = 1 .. 4
        /\ \A i \in 1 .. 4 : e.choices[i].display_label = display_labels[i]
        /\ \A t \in texts \cup { e.choices[i].text : i \in 1 .. 4 } :
              Cardinality({ i \in 1 .. 4 : e.choices[i].text = t })
                = Cardinality({ l \in { "a", "b", "c", "d" } : OptionText(row, l) = t })
        /\ row.correct_label \in { "a", "b", "c", "d" } =>
              /\ Cardinality(flagged) = 1
              /\ \A i \in flagged :
                    /\ e.choices[i].text = OptionText(row, row.correct_label)
                    /\ e.correct_display = e.choices[i].display_label
        /\ row.correct_label = NoneVal =>
              /\ flagged = {}
              /\ e.correct_display = NoneVal

\* C6: for every question of a session built by index, whatever the shuffle,
\* the entry matches its table row as EntryMatchesRow says.
C6_ShuffleKeepsCorrectOption ==
    [][(resp'.op = "index" /\ resp'.code = 302 /\ start_time' = now')
          => \A p \in DOMAIN question_data' :
                EntryMatchesRow(question_data'[p], db[question_data'[p].id])]_vars

\* index has built a session with a question whose correct option moved to
\* another label, and a question without a correct label.
C6_Witness ==
    /\ resp.op = "index" /\ resp.code = 302
    /\ \E p \in DOMAIN question_data :
          /\ db[question_data[p].id].correct_label = "a"
          /\ question_data[p].correct_display = "c"
    /\ \E p \in DOMAIN question_data :
          db[question_data[p].id].correct_label = NoneVal

\* A request to upload that asks for more questions than the PDF holds, with
\* numbers that parse and a PDF that holds a question.
OverAskingUpload(r) ==
    /\ upload_refusal(r.file, r.num_text, r.time_text) = ""
    /\ int(r.num_text) > Len(parsed_questions(r.file))

\* A POST to index that asks for more questions than the table holds, with
\* numbers that parse, a positive time and a table that is not empty.
OverAskingIndexPost(r) ==
    /\ r.method = "POST"
    /\ IsIntText(r.num_questions) /\ IsIntText(r.time_limit)
    /\ int(r.time_limit) > 0
    /\ Cardinality(get_all_question_ids) > 0
    /\ int(r.num_questions) > Cardinality(get_all_question_ids)

\* upload clamps: the quiz stored holds every question of the PDF and the
\* warning is flashed.
UploadClampsCount ==
    (prog = "app" /\ resp'.op = "upload") =>
        \A r \in UploadRequests :
            (OverAskingUpload(r) /\ upload(r.file, r.num_text, r.time_text)) =>
                /\ resp'.kind = "redirect_quiz" /\ resp'.flash = "count_clamped"
                /\ resp'.quiz_id \in DOMAIN QUIZ_STORE' \ DOMAIN QUIZ_STORE
                /\ Len(QUIZ_STORE'[resp'.quiz_id].questions)
                     = Len(parsed_questions(r.file))

\* index clamps: the session built holds every question of the table.
IndexClampsCount ==
    (prog = "exam_app" /\ resp'.op = "index") =>
        \A r \in IndexRequests :
            (OverAskingIndexPost(r)
               /\ index(r.method, r.num_questions, r.time_limit)) =>
                /\ resp'.code = 302
                /\ Len(question_data') = Cardinality(get_all_question_ids)

\* index refuses: 400, and the session is left as it was.
IndexRefusesCount ==
    (prog = "exam_app" /\ resp'.op = "index") =>
        \A r \in IndexRequests :
            (OverAskingIndexPost(r)
               /\ index(r.method, r.num_questions, r.time_limit)) =>
                /\ resp'.code = 400 /\ resp'.kind = "bad_request"
                /\ UNCHANGED sessionVars

NonPositive(num_text, time_text) ==
    /\ IsIntText(num_text) /\ IsIntText(time_text)
    /\ (int(num_text) <= 0 \/ int(time_text) <= 0)

\* C8: a build request with a non-positive count or a non-positive time
\* limit creates no session and leaves the store unchanged: upload adds
\* nothing to QUIZ_STORE, index stores no session data.
C8_NonPositiveConfigBuildsNothing ==
    [][/\ (prog = "app" /\ resp'.op = "upload") =>
            \A r \in UploadRequests :
                (NonPositive(r.num_text, r.time_text)
                   /\ upload(r.file, r.num_text, r.time_text))
                => UNCHANGED QUIZ_STORE
       /\ (prog = "exam_app" /\ resp'.op = "index") =>
            \A r \in IndexRequests :
                (r.method = "POST" /\ NonPositive(r.num_questions, r.time_limit)
                   /\ index(r.method, r.num_questions, r.time_limit))
                => UNCHANGED sessionVars]_vars

\* C9: with an empty question bank no build request creates a session:
\* upload adds nothing to QUIZ_STORE when the parse yields no question,
\* index stores no session data when the table is empty.
C9_EmptyBankBuildsNothing ==
    [][/\ (prog = "app" /\ resp'.op = "upload") =>
            \A r \in UploadRequests :
                (/\ r.file \notin { NoFile, Unreadable }
                 /\ parsed_questions(r.file) = << >>
                 /\ upload(r.file, r.num_text, r.time_text))
                => (UNCHANGED QUIZ_STORE /\ resp'.kind = "redirect_home")
       /\ (prog = "exam_app" /\ resp'.op = "index"
             /\ get_all_question_ids = {}) =>
            \A r \in IndexRequests :
                index(r.method, r.num_questions, r.time_limit)
                => (UNCHANGED sessionVars /\ ~has_question_data')]_vars

\* upload has turned back a PDF in which no question was found.
C9_Witness ==
    /\ resp.op = "upload" /\ resp.flash = "no_questions"
    /\ QUIZ_STORE = [k \in {} |-> 0]

\* C10: grading never fails: finish and submit (for a stored quiz) return a
\* report, and a session or quiz with zero questions is graded with score 0.
C10_GradingAlwaysReports ==
    /\ resp.op = "finish" =>
          /\ resp.kind = "result"
          /\ question_data = << >> => resp.report.score = 0
    /\ (resp.op = "submit" /\ resp.quiz_id \in DOMAIN QUIZ_STORE) =>
          /\ resp.kind = "result"
          /\ QUIZ_STORE[resp.quiz_id].questions = << >> => resp.report.score = 0

\* The display labels of the question at position p.
DisplayLabelsAt(p) == { question_data[p].choices[i].display_label : i \in 1 .. 4 }

\* C11: every recorded answer at position p is one of the display labels of
\* question p; a letter that is no display label of that question is never
\* stored in the answer map.
C11_AnswersAreDisplayLabels ==
    has_question_data =>
        \A p \in DOMAIN answers :
            /\ p \in DOMAIN question_data
            /\ answers[p] \in DisplayLabelsAt(p)

\* The client follows a redirect to /exam/<idx> with a GET.
FollowsRedirect ==
    /\ resp.op = "exam" /\ resp.kind = "redirect_exam"
    /\ exam("GET", resp.idx, "", "none", "1")

\* C12: navigation clamps into 1..num_q without wraparound: next from
\* position num_q stays at num_q, previous from position 1 stays at 1, and a
\* jump whose target lies above num_q lands on position num_q (the redirect
\* names num_q, or the client that follows it is led to num_q).
C12_NavigationClampsIntoRange ==
    [][(has_question_data /\ ~Expired /\ resp'.op = "exam") =>
          /\ \A r \in ExamRequests :
                (/\ r.method = "POST" /\ r.idx \in 1 .. num_q
                 /\ r.nav \in { "next", "prev" }
                 /\ exam(r.method, r.idx, r.chosen, r.nav, r.goto_idx))
                => /\ resp'.kind = "redirect_exam"
                   /\ resp'.idx \in 1 .. num_q
                   /\ (r.nav = "next" /\ r.idx = num_q) => resp'.idx = num_q
                   /\ (r.nav = "prev" /\ r.idx = 1) => resp'.idx = 1
          /\ (resp.idx > num_q /\ FollowsRedirect) =>
                (resp'.idx = num_q
                   /\ resp'.kind \in { "page", "redirect_exam" })]_vars

\* max(0, L - (t - s)) for the session's start time s and limit L at clock
\* value t, written without the handler's own arithmetic.
RemainingAt(t) ==
    IF t - start_time < time_limit_seconds
      THEN time_limit_seconds - (t - start_time)
      ELSE 0

\* C13: time_left_seconds at clock value t equals max(0, L - (t - s)) and is
\* never negative; while the session stays the same and the clock advances by
\* d seconds it decreases by d, or to exactly 0 when less than d was left,
\* and it stays 0 from then on; the request in which it is computed and found
\* 0 changes no session state.
C13_TimeLeftCountsDownToZero ==
    /\ [](has_question_data =>
            /\ time_left_seconds = RemainingAt(now)
            /\ time_left_seconds >= 0)
    /\ [][(has_question_data /\ now' > now
             /\ UNCHANGED << start_time, time_limit_seconds >>) =>
            /\ time_left_seconds >= now' - now
                 => time_left_seconds' = time_left_seconds - (now' - now)
            /\ time_left_seconds < now' - now => time_left_seconds' = 0
            /\ time_left_seconds' <= time_left_seconds]_vars
    /\ [][(has_question_data /\ resp'.op = "exam" /\ time_left_seconds = 0)
            => UNCHANGED sessionVars]_vars

\* The limit of a session was passed by more than a clock step, after a time
\* at which part of it was left, and exam has found the remaining time 0.
C13_Witness ==
    /\ has_question_data
    /\ now - start_time > time_limit_seconds
    /\ time_left_seconds = 0
    /\ resp.op = "exam" /\ resp.kind = "redirect_finish_time_up"

\* qs holds n members of bank, each taken from a position of its own.
DrawnWithoutReplacement(qs, bank, n) ==
    /\ DOMAIN qs = 1 .. n
    /\ \E f \in [1 .. n -> 1 .. Len(bank)] :
          /\ \A i, j \in 1 .. n : f[i] = f[j] => i = j
          /\ \A i \in 1 .. n : qs[i] = bank[f[i]]

\* C14: a session built with a valid count N (1 <= N <= bank size) holds
\* exactly N questions at positions 1..N, each one a member of the bank and
\* no bank question at two positions: the questions of the quiz upload
\* stores, and the ids of the session index stores.
C14_SessionIsSampleWithoutReplacement ==
    [][/\ (prog = "app" /\ resp'.op = "upload" /\ resp'.kind = "redirect_quiz") =>
            \A r \in UploadRequests :
                (/\ upload_refusal(r.file, r.num_text, r.time_text) = ""
                 /\ int(r.num_text) \in 1 .. Len(parsed_questions(r.file))
                 /\ upload(r.file, r.num_text, r.time_text))
                => DrawnWithoutReplacement(QUIZ_STORE'[resp'.quiz_id].questions,
                                           parsed_questions(r.file),
                                           int(r.num_text))
       /\ (prog = "exam_app" /\ resp'.op = "index" /\ resp'.code = 302) =>
            \A r \in IndexRequests :
                (/\ r.method = "POST"
                 /\ IsIntText(r.num_questions) /\ IsIntText(r.time_limit)
                 /\ int(r.num_questions) \in 1 .. Cardinality(get_all_question_ids)
                 /\ index(r.method, r.num_questions, r.time_limit))
                => LET N == int(r.num_questions) IN
                   /\ DOMAIN question_data' = 1 .. N
                   /\ \A p \in 1 .. N :
                         question_data'[p].id \in get_all_question_ids
                   /\ \A p, q \in 1 .. N :
                         question_data'[p].id = question_data'[q].id => p = q]_vars

\* index has built a session of two questions from a table of two rows.
C14_Witness ==
    /\ resp.op = "index" /\ resp.code = 302
    /\ Cardinality(get_all_question_ids) = 2
    /\ DOMAIN question_data = 1 .. 2
    /\ question_data[1].id # question_data[2].id

\* The lines of a text that are not blank.
NonBlank(lines) == SelectSeq(lines, LAMBDA l : l.k # "B")

\* The last line of the block that starts at line i of nb: the line before
\* the next question line, or the last line of the text.
BlockEnd(nb, i) ==
    CHOOSE e \in i .. Len(nb) :
        /\ \A j \in i + 1 .. e : nb[j].k # "Q"
        /\ e = Len(nb) \/ nb[e + 1].k = "Q"

\* The block that starts at line i of nb is well formed: one or more option
\* lines with distinct letters, then an answer line naming one of them.
WellFormedBlock(nb, i) ==
    LET e == BlockEnd(nb, i) IN
    /\ e >= i + 2
    /\ nb[e].k = "A"
    /\ \A j \in i + 1 .. e - 1 : nb[j].k = "O"
    /\ \A j, k \in i + 1 .. e - 1 :
          Upper(nb[j].letter) = Upper(nb[k].letter) => j = k
    /\ \E j \in i + 1 .. e - 1 : Upper(nb[j].letter) = Upper(nb[e].letter)

\* A text made of well-formed blocks and blank lines only.
WellFormedText(lines) ==
    LET nb == NonBlank(lines) IN
    /\ nb # << >> => nb[1].k = "Q"
    /\ \A i \in DOMAIN nb : nb[i].k = "Q" => WellFormedBlock(nb, i)

\* The line of nb at which the k-th block starts.
BlockStart(nb, k) ==
    CHOOSE i \in DOMAIN nb :
        /\ nb[i].k = "Q"
        /\ Cardinality({ j \in 1 .. i : nb[j].k = "Q" }) = k

\* The question q carries the options and the answer letter written in the
\* block that starts at line i of nb.
AsWritten(q, nb, i) ==
    LET e == BlockEnd(nb, i) IN
    /\ q.options = [n \in 1 .. e - i - 1 |->
                       << Upper(nb[i + n].letter), nb[i + n].rest >>]
    /\ q.answer = Upper(nb[e].letter)

\* C15: for a text made of K well-formed blocks and no other block, with
\* blank lines anywhere, parse_pdf_text returns exactly K questions in source
\* order, each with the options and the correct letter as written.
C15_WellFormedBlocksAllParsed ==
    (call.fn = "parse_pdf_text" /\ call.returned /\ WellFormedText(call.arg)) =>
        LET nb == NonBlank(call.arg)
            K  == Cardinality({ i \in DOMAIN nb : nb[i].k = "Q" })
        IN  /\ Len(call.ret) = K
            /\ \A k \in 1 .. K : AsWritten(call.ret[k], nb, BlockStart(nb, k))

\* parse_pdf_text has returned two questions for a text of two well-formed
\* blocks that holds blank lines, the first block with two options.
C15_Witness ==
    /\ call.fn = "parse_pdf_text" /\ call.returned
    /\ WellFormedText(call.arg)
    /\ \E n \in DOMAIN call.arg : call.arg[n].k = "B"
    /\ Len(call.ret) = 2
    /\ Len(call.ret[1].options) = 2

\* Line i of the text is a question line and the first line after it that
\* matches a pattern is an option line: the block has an option.
StartsBlockWithOption(lines, i) ==
    /\ lines[i].k = "Q"
    /\ \E j \in i + 1 .. Len(lines) :
          /\ lines[j].k = "O"
          /\ \A m \in i + 1 .. j - 1 : lines[m].k \in { "T", "B" }

BlocksWithOption(lines) ==
    { i \in DOMAIN lines : StartsBlockWithOption(lines, i) }

\* The question line of the k-th block that has an option.
KthBlockWithOption(lines, k) ==
    CHOOSE i \in BlocksWithOption(lines) :
        Cardinality({ j \in BlocksWithOption(lines) : j <= i }) = k

\* The largest of a non-empty set of numbers.
Largest(S) == CHOOSE m \in S : \A n \in S : n <= m

\* C16: the questions returned by one call of parse_pdf_text have pairwise
\* distinct numbers; a block whose declared number was already emitted gets
\* the largest emitted number plus 1, any other block keeps its declared
\* number; and one question is emitted for every block that has an option,
\* renumbered or not.
C16_EmittedNumbersDistinct ==
    (call.fn = "parse_pdf_text" /\ call.returned) =>
        LET ret == call.ret
            emitted(k) == { ret[m].number : m \in 1 .. k - 1 }
        IN  /\ \A m, n \in DOMAIN ret : ret[m].number = ret[n].number => m = n
            /\ Len(ret) = Cardinality(BlocksWithOption(call.arg))
            /\ \A k \in DOMAIN ret :
                  LET declared == call.arg[KthBlockWithOption(call.arg, k)].num
                  IN  ret[k].number = IF declared \in emitted(k)
                                        THEN Largest(emitted(k)) + 1
                                        ELSE declared

\* parse_pdf_text has returned two questions for two blocks that declare the
\* same number, and the second was given the next one.
C16_Witness ==
    /\ call.fn = "parse_pdf_text" /\ call.returned
    /\ Len(call.ret) = 2
    /\ \A i \in BlocksWithOption(call.arg) : call.arg[i].num = 1
    /\ call.ret[1].number = 1 /\ call.ret[2].number = 2

\* The last line of the block whose question line is line i: the line
\* before the next question line, or the last line of the text.
LastLineOfBlock(lines, i) == BlockEnd(lines, i)

\* The answer line of the block whose question line is line i: the first
\* answer line of the block (0 when the block has none).  In a block that has
\* an option it follows the option lines.
AnswerLine(lines, i) ==
    LET found == { j \in i + 1 .. LastLineOfBlock(lines, i) : lines[j].k = "A" }
    IN  IF found = {} THEN 0 ELSE CHOOSE j \in found : \A m \in found : j <= m

\* The letters of the option lines of the block whose question line is line
\* i: the option lines before its answer line.
OptionLetters(lines, i) ==
    LET a == AnswerLine(lines, i)
        e == IF a = 0 THEN LastLineOfBlock(lines, i) ELSE a - 1
    IN  { Upper(lines[j].letter) : j \in { m \in i + 1 .. e : lines[m].k = "O" } }

\* C17: a block that has an option and whose answer letter is none of its
\* option letters is emitted with an empty correct letter (a block whose
\* answer letter is one of them keeps it); so every emitted question's correct
\* letter is empty or a key of its options.
C17_AnswerIsUnknownOrAnOption ==
    (call.fn = "parse_pdf_text" /\ call.returned) =>
        /\ Len(call.ret) = Cardinality(BlocksWithOption(call.arg))
        /\ \A k \in DOMAIN call.ret :
              LET q == call.ret[k]
                  i == KthBlockWithOption(call.arg, k)
                  a == AnswerLine(call.arg, i)
              IN  /\ q.answer = ""
                     \/ \E n \in DOMAIN q.options : q.options[n][1] = q.answer
                  /\ a # 0 =>
                        q.answer =
                          IF Upper(call.arg[a].letter) \in OptionLetters(call.arg, i)
                            THEN Upper(call.arg[a].letter)
                            ELSE ""

\* parse_pdf_text has returned the question of a block whose answer line
\* names B while its only option is A, with an empty correct letter.
C17_Witness ==
    /\ call.fn = "parse_pdf_text" /\ call.returned
    /\ call.arg = << QLine(1, "p"), OLine("A", "x"), ALine("B") >>
    /\ Len(call.ret) = 1
    /\ call.ret[1].answer = ""
    /\ call.ret[1].options = << << "A", "x" >> >>

\* The question line that owns line j: the last question line at or before
\* it (0 when there is none).
OwnerOf(lines, j) ==
    LET starts == { i \in 1 .. j : lines[i].k = "Q" }
    IN  IF starts = {} THEN 0 ELSE Largest(starts)

\* The text without the blocks that have no option.
WithoutOptionlessBlocks(lines) ==
    LET kept == { j \in DOMAIN lines :
                    OwnerOf(lines, j) = 0
                    \/ StartsBlockWithOption(lines, OwnerOf(lines, j)) }
    IN  [n \in 1 .. Cardinality(kept) |->
            lines[CHOOSE j \in kept : Cardinality({ m \in kept : m <= j }) = n]]

\* C18: a block with zero option lines is never in the output of
\* parse_pdf_text: every emitted question has an option, one question is
\* emitted per block that has an option, and the output is the output for the
\* text with the option-less blocks taken out (the blocks that follow are
\* neither dropped nor altered).
C18_OptionlessBlocksDiscarded ==
    (call.fn = "parse_pdf_text" /\ call.returned) =>
        /\ \A k \in DOMAIN call.ret : call.ret[k].options # << >>
        /\ Len(call.ret) = Cardinality(BlocksWithOption(call.arg))
        /\ call.ret = parse_pdf_text(WithoutOptionlessBlocks(call.arg))

\* parse_pdf_text has returned one question for a text in which a block
\* without options, with an answer line, comes before a block with an option.
C18_Witness ==
    /\ call.fn = "parse_pdf_text" /\ call.returned
    /\ \E i, j \in DOMAIN call.arg :
          /\ i < j
          /\ call.arg[i].k = "Q" /\ ~StartsBlockWithOption(call.arg, i)
          /\ AnswerLine(call.arg, i) # 0
          /\ StartsBlockWithOption(call.arg, j)
    /\ Len(call.ret) = 1
    /\ WithoutOptionlessBlocks(call.arg) # call.arg


\* The loop of parse_excel_dataframe has just taken a row whose first cell
\* is of this kind.
TakesRow(kind) ==
    /\ locals'.rows = locals.rows + 1
    /\ locals'.row.cell.kind = kind

FourLabels == { "a", "b", "c", "d" }

\* The accumulator (prompt, options, correct mark) is as before the first
\* row.
AccumulatorReset(l) ==
    l.current_q = NoneVal /\ l.opts = NoOpts /\ l.correct = NoneVal

AccumulatorUnchanged ==
    /\ locals'.questions = locals.questions
    /\ locals'.current_q = locals.current_q
    /\ locals'.opts = locals.opts
    /\ locals'.correct = locals.correct

\* C19: in parse_excel_dataframe, once a question-start row has opened a
\* question (whatever follows the prefix, nothing included), the row that
\* brings its fourth option emits the question with the prompt gathered so
\* far and resets the accumulator; a question-start row with all four
\* options in its cell emits at once; and every emitted question has exactly
\* the options a, b, c, d and a correct label that is absent or one of them.
C19_FourthOptionEmitsAndResets ==
    /\ [](\A i \in 1 .. Len(locals.questions) :
            /\ DOMAIN locals.questions[i].options = FourLabels
            /\ locals.questions[i].correct \in FourLabels \cup { NoneVal })
    /\ [][(/\ TakesRow("choice")
           /\ locals.current_q # NoneVal
           /\ DOMAIN locals.opts \cup { Lower(locals'.row.cell.label) } = FourLabels) =>
              (/\ Len(locals'.questions) = Len(locals.questions) + 1
               /\ locals'.questions[Len(locals'.questions)].question = locals.current_q
               /\ AccumulatorReset(locals'))]_vars
    /\ [][(/\ TakesRow("cau")
           /\ DOMAIN found_options(locals'.row.cell.inline) = FourLabels) =>
              (/\ Len(locals'.questions) >= Len(locals.questions) + 1
               /\ AccumulatorReset(locals'))]_vars

\* C20: in parse_excel_dataframe, a row that neither starts a question nor
\* is an option line is appended to the prompt whenever a question is open
\* (its prompt so far may be empty) and has no option yet; in every other
\* state the row leaves the accumulator as it was.
C20_OtherRowContinuesOpenPrompt ==
    [][TakesRow("text") =>
         IF locals.current_q # NoneVal /\ locals.opts = NoOpts
         THEN /\ locals'.current_q =
                     locals.current_q \o "\n" \o locals'.row.cell.text
              /\ locals'.questions = locals.questions
              /\ locals'.opts = locals.opts
              /\ locals'.correct = locals.correct
         ELSE AccumulatorUnchanged]_vars


\* This step is a POST to exam for position idx that carries the choice
\* chosen (with any button).  The first two conjuncts follow from the third
\* and are there to be looked at first.
PostsChoice(idx, chosen) ==
    /\ resp'.op = "exam"
    /\ answers' = store_answer(idx, chosen)
    /\ \E nav \in NavInputs :
          \E goto_idx \in (IF nav = "goto" THEN GotoInputs ELSE { "1" }) :
             exam("POST", idx, chosen, nav, goto_idx)

\* The answer map after the step holds chosen at idx and what it held
\* before at every other position.
RecordedAt(idx, chosen) ==
    /\ DOMAIN answers' = DOMAIN answers \cup { idx }
    /\ answers'[idx] = chosen
    /\ \A q \in DOMAIN answers \ { idx } : answers'[q] = answers[q]

\* C21: a request that records an answer (a POST to exam with a choice, for
\* a position in 1..num_q of a session whose time has not run out) sets the
\* answer at that position to the submitted letter, whatever was recorded
\* there before, keeps the answers at all other positions, and changes
\* neither the question data nor the start time nor the time limit.
C21_RecordingTouchesOnePosition ==
    [][(has_question_data /\ ~Expired /\ resp'.op = "exam") =>
          \A idx \in 1 .. num_q, chosen \in ChoiceInputs \ { "" } :
             \/ /\ RecordedAt(idx, chosen)
                /\ UNCHANGED << question_data, start_time, time_limit_seconds >>
             \/ ~PostsChoice(idx, chosen)]_vars

\* Answers are recorded at two positions of a session, the later one by the
\* last request, and they differ.
C21_Witness ==
    /\ has_question_data /\ resp.op = "exam"
    /\ DOMAIN answers = { 1, 2 }
    /\ answers[1] # answers[2]


\* This step is a request (it leaves the clock and the table alone) that
\* index answers by building a session.
BuildsSession ==
    /\ resp'.op = "index" /\ resp'.code = 302
    /\ now' = now /\ db' = db

\* C22: the display data of a session is fixed when index builds it: a step
\* that builds no session (an answer, a navigation, a request after the time
\* ran out, finish, a refused index request, a change of the questions
\* table) leaves the text, the choices in display order and the correct
\* display letter of every question as they were; and finish reports the
\* correct letters the session holds, whatever the table holds by then.
C22_DisplayDataFixedAtCreation ==
    /\ [][(has_question_data /\ ~BuildsSession) =>
             /\ has_question_data'
             /\ DOMAIN question_data' = DOMAIN question_data
             /\ \A p \in DOMAIN question_data :
                   /\ question_data'[p].text = question_data[p].text
                   /\ question_data'[p].choices = question_data[p].choices
                   /\ question_data'[p].correct_display
                         = question_data[p].correct_display]_vars
    /\ [](resp.op = "finish" =>
             \A p \in DOMAIN resp.report.results :
                resp.report.results[p].correct = question_data[p].correct_display)

\* finish has graded a session one of whose questions is no longer in the
\* table with the text the session shows.
C22_Witness ==
    /\ has_question_data /\ resp.op = "finish" /\ answers # << >>
    /\ \E p \in DOMAIN question_data :
          \/ question_data[p].id \notin DOMAIN db
          \/ db[question_data[p].id].text # question_data[p].text


\* C23: right after index has built a session, the session is in progress
\* (it holds question data and its time has not run out), the client is sent
\* to position 1, the answer map is empty whatever it held before, the time
\* limit in seconds is the requested number of minutes times 60, and the
\* remaining time equals that limit.
C23_NewSessionStartsFresh ==
    [][BuildsSession =>
         /\ has_question_data' /\ ~Expired'
         /\ resp'.kind = "redirect_exam" /\ resp'.idx = 1
         /\ answers' = << >>
         /\ time_left_seconds' = time_limit_seconds'
         /\ \A minutes \in 1 .. MaxMinutes :
               \/ time_limit_seconds' = minutes * 60
               \/ ~\E num_questions \in NumInputs :
                     index("POST", num_questions, ToString(minutes))]_vars

\* A session was built after the clock had advanced: its time is all left
\* and it holds no answer.
C23_Witness ==
    /\ resp.op = "index" /\ resp.code = 302
    /\ has_question_data /\ answers = << >>
    /\ start_time > BootTime
    /\ time_left_seconds = time_limit_seconds


\* The block whose question line is line i has an option and an empty folded
\* prompt: nothing follows the number on the question line, and only blank
\* lines stand between it and the first option.
FoldedPromptEmpty(lines, i) ==
    /\ lines[i].k = "Q" /\ lines[i].rest = ""
    /\ \E j \in i + 1 .. Len(lines) :
          /\ lines[j].k = "O"
          /\ \A m \in i + 1 .. j - 1 : lines[m].k = "B"

\* C24: every question that parse_pdf_text returns for a block whose folded
\* prompt is empty has the prompt "Question n", n being the number the
\* question is returned with.
C24_PlaceholderNamesEmittedNumber ==
    (call.fn = "parse_pdf_text" /\ call.returned) =>
        \A k \in DOMAIN call.ret :
            FoldedPromptEmpty(call.arg, KthBlockWithOption(call.arg, k))
                => call.ret[k].prompt = "Question " \o ToString(call.ret[k].number)


\* C25: quizzes in QUIZ_STORE do not interfere.  Whatever the order of the
\* uploads, pages and submissions of several takers, a request leaves every
\* quiz stored under an id other than its own as it was: its questions with
\* their options in the order they are held, its answer key and its time
\* limit.  In particular two quizzes drawn from the same PDF hold questions
\* of their own: putting the options of one in order leaves the other's as
\* they were.
C25_QuizzesDoNotInterfere ==
    [][\A k \in DOMAIN QUIZ_STORE :
          k # resp'.quiz_id =>
             /\ k \in DOMAIN QUIZ_STORE'
             /\ QUIZ_STORE'[k] = QUIZ_STORE[k]]_vars

\* Two quizzes drawn from the same PDF hold the same question, one with its
\* options put in order by the page request of its taker, the other with the
\* options as parsed.
C25_Witness ==
    /\ DOMAIN QUIZ_STORE = StoreIds
    /\ resp.op = "quiz" /\ resp.code = 200
    /\ \E k, j \in StoreIds :
          /\ k = resp.quiz_id /\ j # k
          /\ QUIZ_STORE[k].questions[1].number = QUIZ_STORE[j].questions[1].number
          /\ QUIZ_STORE[k].questions[1].options # QUIZ_STORE[j].questions[1].options
          /\ QUIZ_STORE[k].questions[1].options
                = sorted_options(QUIZ_STORE[j].questions[1].options)


\* C26: upload_excel changes the table atomically.  A request that imports
\* (it reports the questions added) leaves the table holding the imported
\* questions, after the earlier rows or in their place; a request that
\* imports nothing (no file, an unreadable file, no valid question in the
\* file) leaves the table holding exactly the rows it held before, with the
\* overwrite option or without.
C26_ImportIsAllOrNothing ==
    [][resp'.op = "upload_excel" =>
         IF resp'.flash = "added"
           THEN /\ resp'.idx >= 1
                /\ sqlite_sequence' = sqlite_sequence + resp'.idx
                /\ sqlite_sequence + 1 .. sqlite_sequence' \subseteq DOMAIN db'
                /\ \A id \in DOMAIN db' :
                      id <= sqlite_sequence => (id \in DOMAIN db /\ db'[id] = db[id])
           ELSE db' = db]_vars


\* C27: in every state of a session the keys of the answer map are
\* positions in 1..num_q, and num_q is the number of questions in
\* question_data; a request to exam for a position outside 1..num_q leaves
\* the answer map as it was.
C27_AnswerKeysArePositions ==
    /\ [](has_question_data =>
            /\ num_q = Len(question_data)
            /\ DOMAIN answers \subseteq 1 .. num_q)
    /\ [][(has_question_data /\ resp'.op = "exam") =>
            \/ answers' = answers
            \/ ~\E r \in { x \in ExamRequests : x.idx \notin 1 .. num_q } :
                  exam(r.method, r.idx, r.chosen, r.nav, r.goto_idx)]_vars

\* Every position of a session of one question is answered, and the last
\* request to exam was sent back to position 1.
C27_Witness ==
    /\ has_question_data /\ num_q = 1 /\ DOMAIN answers = { 1 }
    /\ ~Expired
    /\ resp.op = "exam" /\ resp.kind = "redirect_exam" /\ resp.idx = 1


\* C28: within a session the set of answered positions never shrinks: a step
\* in which index builds no session (a request to exam with or without a
\* choice, finish, a refused index request, the clock advancing) keeps every
\* answered position answered, and changes the letter at a position only if
\* the step is a request to exam; a step in which index builds a session
\* empties the map.
C28_AnsweredPositionsNeverShrink ==
    [][IF BuildsSession
         THEN answers' = << >>
         ELSE /\ DOMAIN answers \subseteq DOMAIN answers'
              /\ resp'.op # "exam" => answers' = answers]_vars

\* finish has graded a session whose two positions are both answered.
C28_Witness ==
    /\ has_question_data /\ num_q = 2
    /\ resp.op = "finish" /\ resp.kind = "result"
    /\ DOMAIN answers = { 1, 2 }


\* The index at which a loop that reads lines up to the next marker stops,
\* entered at line i: the first line from i on that is an option, an answer
\* or a question line, or the line after the last.
NextMarker(lines, i) ==
    LET found == { j \in i .. Len(lines) : lines[j].k \in { "O", "A", "Q" } }
    IN  IF found = {} THEN Len(lines) + 1
        ELSE CHOOSE j \in found : \A m \in found : j <= m

\* A turn of the outer loop of parse_pdf_text has just been taken.
TakesTurn == ScanStarted /\ ScanStarted' /\ locals' # locals

\* C29: parse_pdf_text terminates on every text.  Every turn of the outer
\* loop moves the line index forward by at least one line and never beyond
\* the line after the last; the lines a turn passes over hold no question
\* line after its first, so no line is read by two blocks; each inner loop
\* (prompt lines, options, continuation lines of an option), entered at any
\* line of a text about to be parsed, leaves the index where it was or
\* further on, at the next marker for the loops that read up to one; and a
\* call that has started returns.
C29_ParseTerminates ==
    /\ [][(ScanStarted /\ ScanStarted') =>
             \/ UNCHANGED locals
             \/ /\ locals'.i > locals.i
                /\ locals'.i <= Len(call.arg) + 1
                /\ \A j \in locals.i + 1 .. locals'.i - 1 : call.arg[j].k # "Q"]_vars
    /\ [](ScanStarted \/ \A i \in 1 .. Len(call.arg) + 1 :
             /\ prompt_loop(call.arg, i, << >>).i = NextMarker(call.arg, i)
             /\ option_body_loop(call.arg, i, "").i = NextMarker(call.arg, i)
             /\ options_loop(call.arg, i, << >>).i >= i
             /\ options_loop(call.arg, i, << >>).i <= Len(call.arg) + 1
             /\ (i <= Len(call.arg) /\ call.arg[i].k = "O")
                   => options_loop(call.arg, i, << >>).i > i)
    /\ (ScanStarted ~> call.returned)

\* The call has returned a question after a turn that read a whole block,
\* answer line included, and turns that passed over lines of no block.
C29_Witness ==
    /\ call.fn = "parse_pdf_text" /\ call.returned /\ ScanStarted
    /\ Len(call.ret) = 1
    /\ Len(call.arg) >= 5
    /\ call.arg[1].k = "T" /\ call.arg[2].k = "Q" /\ call.arg[3].k = "O"
    /\ call.arg[4].k = "T" /\ call.arg[5].k = "A"

=============================================================================
